---- MODULE Spec2Model ----
(***************************************************************************)
(* Model of the PPT generator backend: generator.py (template cloning,     *)
(* content overlay, fallback theme, save), llm_client.py (_call_groq) and  *)
(* main.py (the /generate and /download handlers, the in-memory store).    *)
(*                                                                         *)
(* Text is a sequence of string fragments (characters for the deck title,  *)
(* so that the file-name derivation works on characters).  Lengths are EMU *)
(* as python-pptx computes them: Inches(x) = int(x * 914400) and           *)
(* Pt(x) = int(x * 12700).                                                 *)
(***************************************************************************)
EXTENDS Integers, Sequences, FiniteSets, TLC

VARIABLES
    template_file,      \* what is stored at TEMPLATE_PATH
    GROQ_API_KEY,       \* whether the environment holds an API key
    llm_reply,          \* what the text-generation service answers
    request,            \* the PresentationRequest being handled
    pc,                 \* position of the /generate handler
    presentation_data,  \* the descriptors returned by generate_slide_content
    template_prs,       \* Presentation(TEMPLATE_PATH) opened by create_presentation
    prs,                \* the document under construction
    i,                  \* loop index of the content-slide loop
    disk,               \* files written under generated_ppts/
    _ppt_store,         \* main._ppt_store
    response,           \* the HTTP response of the request
    downloads           \* the responses of the /download requests, in order

vars == <<template_file, GROQ_API_KEY, llm_reply, request, pc, presentation_data,
          template_prs, prs, i, disk, _ppt_store, response, downloads>>

(***************************************************************************)
(* Bounds of the model.                                                    *)
(***************************************************************************)
MaxResources == 2   \* embedded resources owned by the content archetype
MaxItems     == 3   \* items in the text-generation service's JSON array
MaxBullets   == 7   \* bullets of one item
MaxTopics    == 3   \* topics of a request

Min(a, b) == IF a < b THEN a ELSE b
Max(a, b) == IF a > b THEN a ELSE b

(***************************************************************************)
(* pptx.util                                                               *)
(***************************************************************************)
\* Inches(h / 100): h is the length in hundredths of an inch
Inches(h) == h * 9144
Pt(p)     == p * 12700

(***************************************************************************)
(* generator.py: colours and slide dimensions                              *)
(***************************************************************************)
COLOR_ORANGE  == "F5533D"
COLOR_ORANGE2 == "FF6B35"
COLOR_NAVY    == "0F172A"
COLOR_SLATE   == "475569"
COLOR_WHITE   == "FFFFFF"
COLOR_LIGHT   == "F8FAFC"
SLIDE_W       == Inches(2000)
SLIDE_H       == Inches(1125)

COLOR_BG      == "0F172A"
COLOR_BLUE    == "358EF1"
COLOR_PURP    == "7C3AED"
COLOR_LGRAY   == "D0D8E8"
COLOR_DBULLET == "1A2745"
_FW           == Inches(1333)
_FH           == Inches(750)

(***************************************************************************)
(* The document model of python-pptx, as far as the generator uses it.     *)
(* A slide is its shape tree (the children of p:spTree, in order), its     *)
(* relationship table and its background fill.  A node of the tree carries *)
(* the relationship id it references in rId ("" when it references none).  *)
(***************************************************************************)
Node(tag, rId) ==
    [tag |-> tag, rId |-> rId, left |-> 0, top |-> 0, width |-> 0, height |-> 0,
     color |-> "", text |-> <<>>, font_size |-> 0, bold |-> FALSE,
     italic |-> FALSE, align |-> ""]

Rel(rId, reltype, target, external) ==
    [rId |-> rId, reltype |-> reltype, target |-> target, external |-> external]

\* Presentation(): the default template, no slides, 4:3 dimensions
Presentation == [slides |-> <<>>, slide_width |-> 9144000, slide_height |-> 6858000]

\* prs.slides.add_slide(prs.slide_layouts[6]): a slide whose tree holds only the
\* group properties and whose table holds only the relationship to its layout
add_slide(p) ==
    [p EXCEPT !.slides = Append(@,
        [tree |-> <<Node("nvGrpSpPr", ""), Node("grpSpPr", "")>>,
         rels |-> {Rel("rId1", "slideLayout", "slideLayout7", FALSE)},
         background |-> ""])]

\* the slide most recently added to p
LastSlide(p) == p.slides[Len(p.slides)]
SetLastSlide(p, s) == [p EXCEPT !.slides[Len(p.slides)] = s]

(***************************************************************************)
(* generator._clone_template_slide.  The result holds the document with    *)
(* the new slide appended and the template slide as the call leaves it.    *)
(***************************************************************************)
\* Variant that appends the source's children without copy.deepcopy: lxml moves
\* them, so the source tree is left empty.
_clone_template_slide_move(p, template_slide) ==
    LET q == add_slide(p)
        new_slide == LastSlide(q)
    IN  [prs |-> SetLastSlide(q, [new_slide EXCEPT !.tree = @ \o template_slide.tree]),
         template_slide |-> [template_slide EXCEPT !.tree = <<>>]]

_clone_template_slide(p, template_slide) ==
    LET q == add_slide(p)
        new_slide == LastSlide(q)
    IN  [prs |-> SetLastSlide(q, [new_slide EXCEPT !.tree = @ \o template_slide.tree]),
         template_slide |-> template_slide]

(***************************************************************************)
(* generator._add_text_box and generator._add_rect                         *)
(***************************************************************************)
_add_text_box(slide, text, left, top, width, height, font_size, bold, color, align, italic) ==
    [slide EXCEPT !.tree = Append(@,
        [tag |-> "txBox", rId |-> "", left |-> left, top |-> top, width |-> width,
         height |-> height, color |-> color, text |-> text, font_size |-> Pt(font_size),
         bold |-> bold, italic |-> italic, align |-> align])]

_add_rect(slide, left, top, width, height, color) ==
    [slide EXCEPT !.tree = Append(@,
        [tag |-> "rect", rId |-> "", left |-> left, top |-> top, width |-> width,
         height |-> height, color |-> color, text |-> <<>>, font_size |-> 0,
         bold |-> FALSE, italic |-> FALSE, align |-> ""])]

(***************************************************************************)
(* str(slide_num).zfill(2)                                                 *)
(***************************************************************************)
Digit(d) == <<"0", "1", "2", "3", "4", "5", "6", "7", "8", "9">>[d + 1]

RECURSIVE str(_)
str(n) == IF n < 10 THEN <<Digit(n)>> ELSE str(n \div 10) \o <<Digit(n % 10)>>

RECURSIVE zfill(_, _)
zfill(s, width) == IF Len(s) >= width THEN s ELSE zfill(<<"0">> \o s, width)

\* content[:n]
Slice(content, n) == SubSeq(content, 1, Min(n, Len(content)))

\* d.get(key, default)
get(d, key, default) == IF key \in DOMAIN d THEN d[key] ELSE default

(***************************************************************************)
(* generator.create_title_slide                                            *)
(***************************************************************************)
create_title_slide(p, template_title_slide, title) ==
    LET c  == _clone_template_slide(p, template_title_slide)
        s0 == LastSlide(c.prs)
        s1 == _add_rect(s0, Inches(150), Inches(320), Inches(120), Pt(4), COLOR_ORANGE)
        s2 == _add_text_box(s1, title, Inches(150), Inches(340), Inches(1100),
                            Inches(280), 60, TRUE, COLOR_NAVY, "LEFT", FALSE)
        s3 == _add_text_box(s2, <<"AI-Powered Presentation  .  iamneo">>,
                            Inches(150), Inches(640), Inches(1000), Inches(70),
                            20, FALSE, COLOR_ORANGE, "LEFT", TRUE)
    IN  [prs |-> SetLastSlide(c.prs, s3), template_slide |-> c.template_slide]

(***************************************************************************)
(* generator.create_content_slide                                          *)
(***************************************************************************)
\* the body of the bullet loop for enumerate(content[:5]) from index k on
RECURSIVE ContentBullets(_, _, _, _)
ContentBullets(slide, points, k, accent) ==
    IF k >= Len(points) THEN slide
    ELSE LET y  == Inches(175) + k * Inches(145)
             s1 == _add_rect(slide, Inches(100), y, Inches(1750), Inches(130), "F8FAFC")
             s2 == _add_rect(s1, Inches(115), y + Inches(50), Inches(18), Inches(18), accent)
             s3 == _add_text_box(s2, points[k + 1], Inches(150), y + Pt(4), Inches(1680),
                                 Inches(120), 22, FALSE, COLOR_SLATE, "LEFT", FALSE)
         IN  ContentBullets(s3, points, k + 1, accent)

\* Variant whose accent test is inverted
ContentAccent_swapped(slide_num) == IF slide_num % 2 = 0 THEN COLOR_ORANGE2 ELSE COLOR_ORANGE

ContentAccent(slide_num) == IF slide_num % 2 = 0 THEN COLOR_ORANGE ELSE COLOR_ORANGE2

\* Variant that keeps the last five bullets instead of the first five
ContentPoints_tail(content) ==
    SubSeq(content, Max(1, Len(content) - 4), Len(content))

ContentPoints(content) == Slice(content, 5)

create_content_slide(p, template_content_slide, slide_title, content, slide_num) ==
    LET c  == _clone_template_slide(p, template_content_slide)
        accent == ContentAccent(slide_num)
        s0 == LastSlide(c.prs)
        s1 == _add_rect(s0, Inches(0), Inches(0), SLIDE_W, Pt(6), accent)
        s2 == _add_rect(s1, Inches(1880), Inches(10), Inches(90), Inches(65), accent)
        s3 == _add_text_box(s2, zfill(str(slide_num), 2), Inches(1880), Inches(10),
                            Inches(90), Inches(65), 18, TRUE, COLOR_WHITE, "CENTER", FALSE)
        s4 == _add_text_box(s3, slide_title, Inches(100), Inches(30), Inches(1750),
                            Inches(120), 38, TRUE, COLOR_NAVY, "LEFT", FALSE)
        s5 == _add_rect(s4, Inches(100), Inches(155), Inches(1750), Pt(2), accent)
        s6 == ContentBullets(s5, ContentPoints(content), 0, accent)
    IN  [prs |-> SetLastSlide(c.prs, s6), template_slide |-> c.template_slide]

(***************************************************************************)
(* generator._fallback_title_slide and generator._fallback_content_slide   *)
(***************************************************************************)
_fallback_title_slide(p, title) ==
    LET q  == add_slide(p)
        s0 == [LastSlide(q) EXCEPT !.background = COLOR_BG]
        s1 == _add_rect(s0, Inches(0), Inches(0), _FW, Inches(7), COLOR_BLUE)
        s2 == _add_rect(s1, Inches(0), Inches(743), _FW, Inches(7), COLOR_PURP)
        s3 == _add_rect(s2, Inches(0), Inches(0), Inches(7), _FH, COLOR_PURP)
        s4 == _add_text_box(s3, title, Inches(80), Inches(250), Inches(800), Inches(180),
                            52, TRUE, COLOR_WHITE, "LEFT", FALSE)
        s5 == _add_text_box(s4, <<"AI-Powered Presentation">>, Inches(80), Inches(450),
                            Inches(700), Inches(60), 18, FALSE, "92BCF5", "LEFT", TRUE)
    IN  SetLastSlide(q, s5)

\* the body of the bullet loop for enumerate(content[:6]) from index k on
RECURSIVE FallbackBullets(_, _, _, _)
FallbackBullets(slide, points, k, accent) ==
    IF k >= Len(points) THEN slide
    ELSE LET y  == Inches(140) + k * Inches(70)
             s1 == _add_rect(slide, Inches(70), y, Inches(1150), Inches(58), COLOR_DBULLET)
             s2 == _add_rect(s1, Inches(85), y + Inches(20), Inches(12), Inches(18), accent)
             s3 == _add_text_box(s2, points[k + 1], Inches(115), y + Pt(2), Inches(1100),
                                 Inches(55), 18, FALSE, COLOR_LGRAY, "LEFT", FALSE)
         IN  FallbackBullets(s3, points, k + 1, accent)

_fallback_content_slide(p, slide_title, content, slide_num) ==
    LET q  == add_slide(p)
        accent == IF slide_num % 2 = 0 THEN COLOR_BLUE ELSE COLOR_PURP
        s0 == [LastSlide(q) EXCEPT !.background = COLOR_BG]
        s1 == _add_rect(s0, Inches(0), Inches(0), _FW, Inches(8), accent)
        s2 == _add_rect(s1, Inches(0), Inches(0), Inches(40), _FH, accent)
        s3 == _add_text_box(s2, slide_title, Inches(70), Inches(25), Inches(1230),
                            Inches(90), 34, TRUE, COLOR_WHITE, "LEFT", FALSE)
        s4 == _add_rect(s3, Inches(70), Inches(115), Inches(1150), Pt(2), accent)
        s5 == _add_rect(s4, Inches(1230), Inches(25), Inches(80), Inches(60), accent)
        s6 == _add_text_box(s5, zfill(str(slide_num), 2), Inches(1230), Inches(25),
                            Inches(80), Inches(60), 16, TRUE, COLOR_WHITE, "CENTER", FALSE)
        s7 == FallbackBullets(s6, Slice(content, 6), 0, accent)
    IN  SetLastSlide(q, s7)

(***************************************************************************)
(* generator.create_presentation: the file name derived from the title.    *)
(* A title is a sequence of characters.                                    *)
(***************************************************************************)
AlNum == {"A", "Q", "a", "i", "n", "1", "3"}

\* c if c.isalnum() or c in " _-" else "_", and then ' ' replaced by '_'
SafeChar(c) == IF c \in AlNum \/ c \in {" ", "_", "-"} THEN c ELSE "_"
SpaceToUnderscore(c) == IF c = " " THEN "_" ELSE c

OutputDir == <<"g", "e", "n", "e", "r", "a", "t", "e", "d", "_", "p", "p", "t", "s", "/">>

FilePath(title) ==
    OutputDir \o [k \in 1..Len(title) |-> SpaceToUnderscore(SafeChar(title[k]))]
              \o <<".", "p", "p", "t", "x">>

(***************************************************************************)
(* llm_client._call_groq.  A JSON value of the service's array is a record *)
(* [type, dict]; a title or a bullet is [type, s] with s its text ("" is   *)
(* the empty text, which Python takes as false).                           *)
(***************************************************************************)
\* the descriptors of the path without API key
NoKeyData(topics) ==
    [k \in 1..Len(topics) |->
        [title |-> topics[k],
         content |-> << <<"Key point 1 about ">> \o topics[k],
                        <<"Key point 2 about ">> \o topics[k] >>]]

\* the descriptors of the JSONDecodeError path
ParseFailData(title, topics) ==
    [k \in 1..Len(topics) |->
        [title |-> topics[k],
         content |-> << <<"Introduction to ">> \o topics[k]
                            \o <<" and its significance in the context of ">> \o title \o <<".">>,
                        <<"Key strategies and best practices associated with ">> \o topics[k] \o <<".">>,
                        <<"Real-world applications and measurable outcomes of ">> \o topics[k] \o <<".">>,
                        <<"Actionable next steps to leverage ">> \o topics[k] \o <<" effectively.">> >>]]

\* [str(c) for c in item["content"] if c]
RECURSIVE Truthy(_)
Truthy(cs) ==
    IF cs = <<>> THEN <<>>
    ELSE IF Head(cs) = <<>> THEN Truthy(Tail(cs))
    ELSE <<Head(cs)>> \o Truthy(Tail(cs))

\* isinstance(item, dict) and "title" in item and "content" in item
ValidItem(item) ==
    item.type = "dict" /\ "title" \in DOMAIN item.dict /\ "content" \in DOMAIN item.dict

\* the validation loop over the parsed array
RECURSIVE Validate(_)
Validate(data) ==
    IF data = <<>> THEN <<>>
    ELSE LET item == Head(data)
         IN  (IF ValidItem(item)
              THEN << [title |-> item.dict.title, content |-> Truthy(item.dict.content)] >>
              ELSE <<>>) \o Validate(Tail(data))

\* the result: the exception raised ("" when none) and the list returned
_call_groq(title, topics, num_slides, key, reply) ==
    IF ~key THEN [raised |-> "", data |-> NoKeyData(topics)]
    ELSE IF reply.kind = "api_error" THEN [raised |-> "APIError", data |-> <<>>]
    ELSE IF reply.kind = "bad_json"
         THEN [raised |-> "", data |-> ParseFailData(title, topics)]
    ELSE [raised |-> "", data |-> Validate(reply.data)]

(***************************************************************************)
(* The inputs.                                                             *)
(***************************************************************************)
RId(n) == <<"rId1", "rId2", "rId3", "rId4", "rId5", "rId6">>[n]
Image(n) == <<"image1.png", "image2.png", "image3.png", "image4.png">>[n]

\* A title archetype: one picture when the template embeds resources
TitleArchetype(K) ==
    [tree |-> <<Node("nvGrpSpPr", ""), Node("grpSpPr", "")>>
              \o (IF K > 0 THEN <<Node("pic", "rId2")>> ELSE <<>>),
     rels |-> {Rel("rId1", "slideLayout", "slideLayout1", FALSE)}
              \cup (IF K > 0 THEN {Rel("rId2", "image", Image(1), FALSE)} ELSE {}),
     background |-> ""]

\* A content archetype owning K embedded resources (each referenced by one
\* picture) and, when K > 0, one external hyperlink referenced by a shape
ContentArchetype(K) ==
    [tree |-> <<Node("nvGrpSpPr", ""), Node("grpSpPr", ""), Node("sp", "")>>
              \o [k \in 1..K |-> Node("pic", RId(k + 1))]
              \o (IF K > 0 THEN <<Node("sp", RId(K + 2))>> ELSE <<>>),
     rels |-> {Rel("rId1", "slideLayout", "slideLayout2", FALSE)}
              \cup {Rel(RId(k + 1), "image", Image(k), FALSE) : k \in 1..K}
              \cup (IF K > 0 THEN {Rel(RId(K + 2), "hyperlink", "https://iamneo.ai", TRUE)}
                    ELSE {}),
     background |-> ""]

TemplateFile(status, slides) ==
    [status |-> status, slides |-> slides, slide_width |-> SLIDE_W, slide_height |-> SLIDE_H]

TemplateFiles ==
    {TemplateFile("missing", <<>>), TemplateFile("unreadable", <<>>),
     TemplateFile("ok", <<TitleArchetype(0)>>)}
    \cup {TemplateFile("ok", <<TitleArchetype(K), ContentArchetype(K)>>) : K \in 0..MaxResources}

\* a title whose file name is longer than a file name may be
LongTitle == [k \in 1..300 |-> "A"]

Titles == { <<"A", "i">>, <<"Q", "3", " ", "+">>, LongTitle }

TopicNames == <<"t1", "t2", "t3", "t4", "t5">>
Topics(n) == [k \in 1..n |-> <<TopicNames[k]>>]

BulletNames == <<"b1", "b2", "b3", "b4", "b5", "b6", "b7", "b8", "b9">>
Bullets(n) == [k \in 1..n |-> <<BulletNames[k]>>]

ItemTitle(k) == <<"S", Digit(k)>>

\* the item at position k of the array: a descriptor with kind >= 0 bullets, or
\* a dict without "content" (-1), a string (-2), a dict with an empty bullet (-3)
JsonItem(k, kind) ==
    CASE kind = -1 -> [type |-> "dict", dict |-> [title |-> ItemTitle(k)]]
      [] kind = -2 -> [type |-> "str", dict |-> [text |-> ItemTitle(k)]]
      [] kind = -3 ->
            [type |-> "dict",
             dict |-> [title |-> ItemTitle(k), content |-> <<Bullets(1)[1], <<>>, Bullets(3)[3]>>]]
      [] OTHER -> [type |-> "dict", dict |-> [title |-> ItemTitle(k), content |-> Bullets(kind)]]

ItemKinds == (0 - 3)..MaxBullets

\* The array the service returns: n items of 4 bullets each, as the prompt asks,
\* except the item at position pos, which is of any kind
Replies ==
    {[kind |-> "api_error", data |-> <<>>], [kind |-> "bad_json", data |-> <<>>],
     [kind |-> "json", data |-> <<>>]}
    \cup {[kind |-> "json",
           data |-> [k \in 1..n |-> JsonItem(k, IF k = pos THEN kind ELSE 4)]] :
             n \in 1..MaxItems, pos \in 1..MaxItems, kind \in ItemKinds}

NotOpened == [slides |-> <<>>, slide_width |-> 0, slide_height |-> 0]
NoRequest == [title |-> <<>>, topics |-> <<>>, num_slides |-> 0]
NoResponse == [status |-> 0, detail |-> ""]

Init ==
    /\ template_file \in TemplateFiles
    /\ GROQ_API_KEY \in BOOLEAN
    /\ llm_reply \in Replies
    /\ (~GROQ_API_KEY => llm_reply.kind = "api_error")
    /\ request = NoRequest
    /\ pc = "idle"
    /\ presentation_data = <<>>
    /\ template_prs = NotOpened
    /\ prs = Presentation
    /\ i = 0
    /\ disk = {}
    /\ _ppt_store = {}
    /\ response = NoResponse
    /\ downloads = <<>>

(***************************************************************************)
(* main.generate_ppt, step by step.                                        *)
(***************************************************************************)
NumSlidesChoices == {1, 2, 15, 16}

\* PresentationRequest: num_slides: int = Field(default=5, ge=2, le=15)
ValidRequest(req) == req.num_slides >= 2 /\ req.num_slides <= 15

\* except Exception as e: raise HTTPException(status_code=500, detail=str(e))
Http500(detail) == [status |-> 500, detail |-> detail]

\* POST /generate arrives; FastAPI validates the body before the handler runs
Receive ==
    /\ pc = "idle"
    /\ \E title \in Titles, n \in 0..MaxTopics, num_slides \in NumSlidesChoices :
          LET req == [title |-> title, topics |-> Topics(n), num_slides |-> num_slides]
          IN  /\ request' = req
              /\ IF ValidRequest(req)
                 THEN pc' = "await_llm" /\ response' = response
                 ELSE pc' = "done" /\ response' = [status |-> 422, detail |-> "num_slides"]
    /\ UNCHANGED <<template_file, GROQ_API_KEY, llm_reply, presentation_data,
                   template_prs, prs, i, disk, _ppt_store, downloads>>

\* presentation_data = await generate_slide_content(...), and the emptiness test
GenerateSlideContent ==
    /\ pc = "await_llm"
    /\ LET r == _call_groq(request.title, request.topics, request.num_slides,
                           GROQ_API_KEY, llm_reply)
       IN  IF r.raised # ""
           THEN /\ pc' = "done"
                /\ response' = Http500(r.raised)
                /\ presentation_data' = presentation_data
           ELSE IF r.data = <<>>
           THEN /\ pc' = "done"
                /\ response' = Http500("Failed to generate slide content from AI.")
                /\ presentation_data' = r.data
           ELSE /\ pc' = "create"
                /\ response' = response
                /\ presentation_data' = r.data
    /\ UNCHANGED <<template_file, GROQ_API_KEY, llm_reply, request,
                   template_prs, prs, i, disk, _ppt_store, downloads>>

(***************************************************************************)
(* generator.create_presentation, step by step.                            *)
(***************************************************************************)
\* os.path.exists, Presentation(TEMPLATE_PATH), slides[0] and slides[1]
OpenOutcome(tf) ==
    IF tf.status = "missing" THEN "fallback"
    ELSE IF tf.status = "unreadable" THEN "PackageNotFoundError"
    ELSE IF Len(tf.slides) < 2 THEN "IndexError"
    ELSE "template"

\* lines 204-218 and 232-237
OpenTemplate ==
    /\ pc = "create"
    /\ LET o == OpenOutcome(template_file)
       IN  CASE o = "template" ->
                  /\ template_prs' = [slides |-> template_file.slides,
                                      slide_width |-> template_file.slide_width,
                                      slide_height |-> template_file.slide_height]
                  /\ prs' = [Presentation EXCEPT !.slide_width = template_file.slide_width,
                                                 !.slide_height = template_file.slide_height]
                  /\ pc' = "title"
                  /\ response' = response
             [] o = "fallback" ->
                  /\ template_prs' = template_prs
                  /\ prs' = [Presentation EXCEPT !.slide_width = SLIDE_W,
                                                 !.slide_height = SLIDE_H]
                  /\ pc' = "fb_title"
                  /\ response' = response
             [] OTHER ->
                  /\ template_prs' = template_prs
                  /\ prs' = prs
                  /\ pc' = "done"
                  /\ response' = Http500(o)
    /\ UNCHANGED <<template_file, GROQ_API_KEY, llm_reply, request, presentation_data,
                   i, disk, _ppt_store, downloads>>

\* create_title_slide(prs, template_title_slide, title)
TitleSlide ==
    /\ pc = "title"
    /\ LET r == create_title_slide(prs, template_prs.slides[1], request.title)
       IN  /\ prs' = r.prs
           /\ template_prs' = [template_prs EXCEPT !.slides[1] = r.template_slide]
    /\ i' = 0
    /\ pc' = "content"
    /\ UNCHANGED <<template_file, GROQ_API_KEY, llm_reply, request, presentation_data,
                   disk, _ppt_store, response, downloads>>

\* Variant that walks the descriptors from the last to the first
SlideData_reversed(data) == [k \in 1..Len(data) |-> data[Len(data) + 1 - k]]

\* the slide_data as the content loops enumerate it
SlideData(data) == data

\* one iteration of: for i, slide_content in enumerate(slide_data)
ContentSlide ==
    /\ pc = "content"
    /\ i < Len(presentation_data)
    /\ LET slide_content == SlideData(presentation_data)[i + 1]
           r == create_content_slide(prs, template_prs.slides[2],
                    get(slide_content, "title", <<"Slide ">> \o str(i + 1)),
                    get(slide_content, "content", <<>>), i + 1)
       IN  /\ prs' = r.prs
           /\ template_prs' = [template_prs EXCEPT !.slides[2] = r.template_slide]
    /\ i' = i + 1
    /\ UNCHANGED <<template_file, GROQ_API_KEY, llm_reply, request, pc, presentation_data,
                   disk, _ppt_store, response, downloads>>

\* _fallback_title_slide(prs, title)
FallbackTitleSlide ==
    /\ pc = "fb_title"
    /\ prs' = _fallback_title_slide(prs, request.title)
    /\ i' = 0
    /\ pc' = "fb_content"
    /\ UNCHANGED <<template_file, GROQ_API_KEY, llm_reply, request, presentation_data,
                   template_prs, disk, _ppt_store, response, downloads>>

\* one iteration of: for i, s in enumerate(slide_data)
FallbackContentSlide ==
    /\ pc = "fb_content"
    /\ i < Len(presentation_data)
    /\ LET s == SlideData(presentation_data)[i + 1]
       IN  prs' = _fallback_content_slide(prs, get(s, "title", <<"Slide">>),
                                          get(s, "content", <<>>), i + 1)
    /\ i' = i + 1
    /\ UNCHANGED <<template_file, GROQ_API_KEY, llm_reply, request, pc, presentation_data,
                   template_prs, disk, _ppt_store, response, downloads>>

\* A call of lines 220-240 raises (python-pptx or lxml fails while a slide is
\* cloned or decorated): nothing in create_presentation catches it, so the call
\* is left before the save and generate_ppt's handler answers 500
RaiseWhileBuilding ==
    /\ pc \in {"title", "content", "fb_title", "fb_content"}
    /\ (pc \in {"content", "fb_content"} => i < Len(presentation_data))
    /\ pc' = "done"
    /\ response' = Http500("Exception")
    /\ UNCHANGED <<template_file, GROQ_API_KEY, llm_reply, request, presentation_data,
                   template_prs, prs, i, disk, _ppt_store, downloads>>

\* a file under generated_ppts/: its path, the document written to it, and
\* whether the write got to its end (a truncated package cannot be opened)
WrittenFile(title, p, complete) ==
    [file_path |-> FilePath(title), prs |-> p, complete |-> complete]

\* the file prs.save(file_path) writes
SavedFile(title, p) == WrittenFile(title, p, TRUE)

\* the name of the file within generated_ppts/
FileName(title) == SubSeq(FilePath(title), Len(OutputDir) + 1, Len(FilePath(title)))

\* What the file system does to lines 243-247: "ok"; "dir_blocked", the output
\* directory cannot be created (a regular file has its name); "write_fails", a
\* write fails after the file was opened (no space left)
FsConditions == {"ok", "dir_blocked", "write_fails"}

\* Lines 243-247 on the files d: the exception raised ("" when none) and the
\* files left.  os.makedirs raises when the directory is blocked; opening the
\* file raises when its name is longer than the 255 bytes a name may have;
\* a write that fails leaves the file truncated.
save(d, title, p, fs) ==
    LET others == {f \in d : f.file_path # FilePath(title)}
    IN  IF fs = "dir_blocked" THEN [raised |-> "FileExistsError", disk |-> d]
        ELSE IF Len(FileName(title)) > 255 THEN [raised |-> "OSError", disk |-> d]
        ELSE IF fs = "write_fails"
             THEN [raised |-> "OSError", disk |-> others \cup {WrittenFile(title, p, FALSE)}]
        ELSE [raised |-> "", disk |-> others \cup {SavedFile(title, p)}]

\* lines 243-248: the loop is over; save and return file_path, or raise
Save ==
    /\ pc \in {"content", "fb_content"}
    /\ i >= Len(presentation_data)
    /\ \E fs \in FsConditions :
          LET r == save(disk, request.title, prs, fs)
          IN  /\ disk' = r.disk
              /\ IF r.raised = ""
                 THEN pc' = "returned" /\ response' = response
                 ELSE pc' = "done" /\ response' = Http500(r.raised)
    /\ UNCHANGED <<template_file, GROQ_API_KEY, llm_reply, request, presentation_data,
                   template_prs, prs, i, _ppt_store, downloads>>

\* buf, filename = create_presentation(...): unpacking the returned str
Unpack(file_path) ==
    IF Len(file_path) = 2
    THEN [raised |-> "", buf |-> <<file_path[1]>>, filename |-> <<file_path[2]>>]
    ELSE [raised |-> "ValueError", buf |-> <<>>, filename |-> <<>>]

Tokens == {"token1"}

\* main.py lines 54-69
StoreAndRespond ==
    /\ pc = "returned"
    /\ LET u == Unpack(FilePath(request.title))
       IN  IF u.raised # ""
           THEN /\ response' = Http500(u.raised)
                /\ _ppt_store' = _ppt_store
           ELSE \E token \in Tokens :
                /\ _ppt_store' = {e \in _ppt_store : e.token # token}
                       \cup {[token |-> token, buf |-> u.buf, filename |-> u.filename]}
                /\ response' = [status |-> 200, detail |-> token]
    /\ pc' = "done"
    /\ UNCHANGED <<template_file, GROQ_API_KEY, llm_reply, request, presentation_data,
                   template_prs, prs, i, disk, downloads>>

Next ==
    \/ Receive
    \/ GenerateSlideContent
    \/ OpenTemplate
    \/ TitleSlide
    \/ ContentSlide
    \/ FallbackTitleSlide
    \/ FallbackContentSlide
    \/ RaiseWhileBuilding
    \/ Save
    \/ StoreAndRespond

Spec == Init /\ [][Next]_vars

(***************************************************************************)
(* main.download_ppt.  An entry of the store is [token, buf, filename]; a  *)
(* buf is a BytesIO: its bytes and its position.                           *)
(***************************************************************************)
\* Variant that reads the entry with get instead of pop
download_ppt_get(store, token) ==
    LET found == {e \in store : e.token = token}
    IN  IF found = {}
        THEN [store |-> store,
              response |-> [token |-> token, status |-> 404, body |-> <<>>, filename |-> <<>>]]
        ELSE LET entry == CHOOSE e \in found : TRUE
                 buf == [entry.buf EXCEPT !.pos = 0]
             IN  [store |-> store,
                  response |-> [token |-> token, status |-> 200,
                                body |-> SubSeq(buf.bytes, buf.pos + 1, Len(buf.bytes)),
                                filename |-> entry.filename]]

\* the store as the call leaves it and the response: entry = _ppt_store.pop(token,
\* None), 404 when None, else buf.seek(0) and the stream of buf from its position
download_ppt(store, token) ==
    LET found == {e \in store : e.token = token}
    IN  IF found = {}
        THEN [store |-> store,
              response |-> [token |-> token, status |-> 404, body |-> <<>>, filename |-> <<>>]]
        ELSE LET entry == CHOOSE e \in found : TRUE
                 buf == [entry.buf EXCEPT !.pos = 0]
             IN  [store |-> store \ found,
                  response |-> [token |-> token, status |-> 200,
                                body |-> SubSeq(buf.bytes, buf.pos + 1, Len(buf.bytes)),
                                filename |-> entry.filename]]

MaxDownloads == 3   \* /download requests of one behaviour

\* the tokens of the entries the store may hold, and one that was never issued
StoreTokens == {"token-a", "token-b"}
DownloadTokens == StoreTokens \cup {"token-x"}

\* a (buf, filename) pair as line 58 stores it: the buffer after a save, its
\* position at the end
StoredFiles ==
    {[buf |-> [bytes |-> <<"PK", "deck-1">>, pos |-> 2], filename |-> <<"A", "i", ".pptx">>],
     [buf |-> [bytes |-> <<"PK", "deck-2">>, pos |-> 2], filename |-> <<"Q", "3", ".pptx">>]}

StoreEntry(token, file) == [token |-> token, buf |-> file.buf, filename |-> file.filename]

\* the stores over StoreTokens: at most one entry per token
Stores ==
    UNION {{ {StoreEntry(t, f[t]) : t \in S} : f \in [S -> StoredFiles] } :
              S \in SUBSET StoreTokens}

\* GET /download/{token}.  The handler has no await: it runs between the steps of
\* generate_ppt that the event loop can interleave, which are the arrival of the
\* request, its await of generate_slide_content and its end.
Download ==
    /\ pc \in {"idle", "await_llm", "done"}
    /\ Len(downloads) < MaxDownloads
    /\ \E token \in DownloadTokens :
          LET r == download_ppt(_ppt_store, token)
          IN  /\ _ppt_store' = r.store
              /\ downloads' = Append(downloads, r.response)
    /\ UNCHANGED <<template_file, GROQ_API_KEY, llm_reply, request, pc, presentation_data,
                   template_prs, prs, i, disk, response>>

\* The server with a store as earlier requests may have left it, one /generate
\* request (no API key, no template) and /download requests in any interleaving
InitServer ==
    /\ template_file = TemplateFile("missing", <<>>)
    /\ GROQ_API_KEY = FALSE
    /\ llm_reply = [kind |-> "api_error", data |-> <<>>]
    /\ request = NoRequest
    /\ pc = "idle"
    /\ presentation_data = <<>>
    /\ template_prs = NotOpened
    /\ prs = Presentation
    /\ i = 0
    /\ disk = {}
    /\ _ppt_store \in Stores
    /\ response = NoResponse
    /\ downloads = <<>>

NextServer ==
    \/ Receive
    \/ GenerateSlideContent
    \/ OpenTemplate
    \/ FallbackTitleSlide
    \/ FallbackContentSlide
    \/ RaiseWhileBuilding
    \/ Save
    \/ StoreAndRespond
    \/ Download

SpecServer == InitServer /\ [][NextServer]_vars

(***************************************************************************)
(* Vocabulary of the properties.                                           *)
(***************************************************************************)
TemplatePath == OpenOutcome(template_file) = "template"
FallbackPath == OpenOutcome(template_file) = "fallback"

\* the archetypes as the template file holds them
TitleSource   == template_file.slides[1]
ContentSource == template_file.slides[2]

\* the content slides built so far, by slot number
Slots == 1..(Len(prs.slides) - 1)
SlotSlide(n) == prs.slides[n + 1]
Descriptor(n) == presentation_data[n]

\* the reference attributes of a slide that its own table does not resolve
Dangling(slide) ==
    {k \in 1..Len(slide.tree) :
        /\ slide.tree[k].rId # ""
        /\ \A r \in slide.rels : r.rId # slide.tree[k].rId}

\* the relationships to embedded resources a slide owns
InternalRels(slide) ==
    {r \in slide.rels : ~r.external /\ r.reltype \notin {"slideLayout", "slideMaster"}}
Resources(slide) == {r.target : r \in InternalRels(slide)}

\* the shapes the overlay appended: everything after the group properties of the
\* new slide and the copy of the source's tree
Overlay(slide, source_len) == SubSeq(slide.tree, 3 + source_len, Len(slide.tree))
ContentOverlay(n) ==
    Overlay(SlotSlide(n), IF TemplatePath THEN Len(ContentSource.tree) ELSE 0)

IsBulletText(sh) == sh.tag = "txBox" /\ ~sh.bold
IsHeading(sh)    == sh.tag = "txBox" /\ sh.bold /\ sh.align = "LEFT"
IsBadge(sh)      == sh.tag = "txBox" /\ sh.bold /\ sh.align = "CENTER"
IsRect(sh)       == sh.tag = "rect"

\* the texts of the bullets a content slide renders, in stacking order
RenderedBullets(n) ==
    LET b == SelectSeq(ContentOverlay(n), IsBulletText)
    IN  [k \in 1..Len(b) |-> b[k].text]

\* the bullets are rendered as consecutive triples panel, marker, text that end
\* the overlay, the panel in panel_color and the marker in the accent
TriplesOK(ov, count, panel_color, accent) ==
    /\ Len(ov) >= 3 * count
    /\ \A k \in 1..Len(ov) :
          IsBulletText(ov[k]) <=> (k > Len(ov) - 3 * count /\ (Len(ov) - k) % 3 = 0)
    /\ \A k \in 1..Len(ov) : IsBulletText(ov[k]) =>
          /\ IsRect(ov[k - 2]) /\ ov[k - 2].color = panel_color
          /\ IsRect(ov[k - 1]) /\ ov[k - 1].color = accent
          /\ ov[k - 2].top < ov[k - 1].top
          /\ (k + 3 <= Len(ov) => ov[k].top < ov[k + 3].top)

\* the two digits of a slot number below 100
TwoDigits(n) == <<Digit(n \div 10), Digit(n % 10)>>

\* the colours of the rectangles of an overlay other than the bullet panels
AccentColors(ov, panel_color) ==
    {ov[k].color : k \in {j \in 1..Len(ov) : IsRect(ov[j]) /\ ov[j].color # panel_color}}

\* the finished document create_presentation saved, if any
Finished == \E f \in disk : f.complete

\* lines 243-247 raised: the output directory or the file could not be written
SaveRaised == response.detail \in {"FileExistsError", "OSError"}

\* create_presentation raised: the template could not be opened, has fewer than
\* two slides, or a slide could not be cloned or decorated
BuildRaised == response.detail \in {"PackageNotFoundError", "IndexError", "Exception"}

(***************************************************************************)
(* C1 - after any number of duplications, no slide of the output document  *)
(* holds a reference attribute that its own relationship table does not    *)
(* resolve, for a template whose archetypes have no dangling reference.    *)
(* Stated as claimed; the code copies the shape tree only.                 *)
(***************************************************************************)
C1_NoDanglingReference ==
    (TemplatePath /\ Dangling(TitleSource) = {} /\ Dangling(ContentSource) = {})
        => \A k \in 1..Len(prs.slides) : Dangling(prs.slides[k]) = {}

(***************************************************************************)
(* C2 - every duplicate of the content archetype owns exactly as many      *)
(* internal resource relationships as the archetype, to the same resource  *)
(* parts.  Stated as claimed; the code registers no relationship.          *)
(***************************************************************************)
C2_ResourcesPreserved ==
    TemplatePath => \A n \in Slots :
        /\ Cardinality(InternalRels(SlotSlide(n))) = Cardinality(InternalRels(ContentSource))
        /\ Resources(SlotSlide(n)) = Resources(ContentSource)

(***************************************************************************)
(* C3 - the archetypes opened from the template stay identical to the      *)
(* template's, shape tree and relationship table, through every clone and  *)
(* decoration; every content slide starts with a copy of the original      *)
(* content archetype's tree, the title slide with the title archetype's.   *)
(***************************************************************************)
C3_SourceUnchanged ==
    (TemplatePath /\ template_prs # NotOpened) =>
        /\ template_prs.slides = template_file.slides
        /\ Len(prs.slides) >= 1 =>
              SubSeq(prs.slides[1].tree, 3, 2 + Len(TitleSource.tree)) = TitleSource.tree
        /\ \A n \in Slots :
              SubSeq(SlotSlide(n).tree, 3, 2 + Len(ContentSource.tree)) = ContentSource.tree

C3_Witness ==
    /\ TemplatePath /\ pc = "content" /\ i = 3
    /\ InternalRels(ContentSource) # {}

(***************************************************************************)
(* C4 - the finished document has one slide more than there are            *)
(* descriptors; its first slide carries the presentation title; slide      *)
(* number n + 1 carries the heading of descriptor n and the badge n, on    *)
(* the template path and on the fallback path.                             *)
(***************************************************************************)
C4_OrderPreserved ==
    \A f \in {g \in disk : g.complete} :
        LET slides == f.prs.slides
            N == Len(presentation_data)
            src(k) == IF ~TemplatePath THEN 0
                      ELSE IF k = 1 THEN Len(TitleSource.tree) ELSE Len(ContentSource.tree)
            headings(k) == SelectSeq(Overlay(slides[k], src(k)), IsHeading)
            badges(k) == SelectSeq(Overlay(slides[k], src(k)), IsBadge)
        IN  /\ Len(slides) = N + 1
            /\ Len(headings(1)) = 1 /\ headings(1)[1].text = request.title
            /\ badges(1) = <<>>
            /\ \A n \in 1..N :
                  /\ Len(headings(n + 1)) = 1
                  /\ headings(n + 1)[1].text = Descriptor(n).title
                  /\ Len(badges(n + 1)) = 1
                  /\ badges(n + 1)[1].text = TwoDigits(n)

C4_Witness ==
    /\ Finished /\ TemplatePath /\ Len(presentation_data) = 3
    /\ \A f \in disk : f.complete /\ Len(f.prs.slides) = 4

(***************************************************************************)
(* C5 - a content slide cloned from the template renders the first         *)
(* min(B, 5) of its descriptor's B bullets, in input order, each as a      *)
(* panel, a marker and a text appended in that order, bullet by bullet;    *)
(* more than five bullets raise nothing: unless python-pptx or the file    *)
(* system fails, the document gets saved.                                  *)
(***************************************************************************)
C5_FirstFiveBullets ==
    TemplatePath =>
        /\ \A n \in Slots :
              LET content == Descriptor(n).content
                  kept == IF Len(content) < 5 THEN Len(content) ELSE 5
              IN  /\ RenderedBullets(n) = [k \in 1..kept |-> content[k]]
                  /\ TriplesOK(ContentOverlay(n), kept, "F8FAFC",
                               IF n % 2 = 1 THEN "FF6B35" ELSE "F5533D")
        /\ (pc = "done" /\ presentation_data # <<>> /\ ~BuildRaised /\ ~SaveRaised) => Finished

C5_Witness ==
    /\ TemplatePath /\ Finished
    /\ \E n \in Slots : Len(Descriptor(n).content) = 7 /\ Len(RenderedBullets(n)) = 5

(***************************************************************************)
(* C6 - on a content slide every accent-coloured rectangle (top bar,       *)
(* badge, divider, one marker per rendered bullet) has the one colour the  *)
(* parity of the slot number decides: FF6B35 on odd slots and F5533D on    *)
(* even slots of the template path.                                        *)
(***************************************************************************)
C6_AccentByParity ==
    TemplatePath => \A n \in Slots :
        LET ov == ContentOverlay(n)
            accents == {k \in 1..Len(ov) : IsRect(ov[k]) /\ ov[k].color # "F8FAFC"}
        IN  /\ AccentColors(ov, "F8FAFC") = {IF n % 2 = 1 THEN "FF6B35" ELSE "F5533D"}
            /\ Cardinality(accents) = 3 + Len(RenderedBullets(n))

C6_Witness ==
    /\ TemplatePath /\ Len(prs.slides) = 4
    /\ AccentColors(ContentOverlay(1), "F8FAFC") = AccentColors(ContentOverlay(3), "F8FAFC")
    /\ AccentColors(ContentOverlay(1), "F8FAFC") # AccentColors(ContentOverlay(2), "F8FAFC")
    /\ Len(RenderedBullets(2)) > 0

(***************************************************************************)
(* C7 - without a template the document has N + 1 slides, in order, with   *)
(* the accent by parity, and a content slide renders the first min(B, 5)   *)
(* bullets.  Stated as claimed; the fallback keeps six bullets.            *)
(***************************************************************************)
C7_FallbackEquivalence ==
    FallbackPath =>
        /\ \A f \in disk : f.complete => Len(f.prs.slides) = Len(presentation_data) + 1
        /\ \A n \in Slots :
              LET content == Descriptor(n).content
                  kept == IF Len(content) < 5 THEN Len(content) ELSE 5
              IN  /\ RenderedBullets(n) = [k \in 1..kept |-> content[k]]
                  /\ AccentColors(ContentOverlay(n), COLOR_DBULLET)
                        = {IF n % 2 = 1 THEN COLOR_PURP ELSE COLOR_BLUE}

(***************************************************************************)
(* C8 - when the template is missing, or present but unreadable, a request *)
(* whose descriptors reached create_presentation ends, unless python-pptx  *)
(* fails while a slide is built or the file system fails at the save, with *)
(* a finished document built on the fallback theme.  Stated as claimed;    *)
(* opening an unreadable template raises.                                  *)
(***************************************************************************)
C8_TemplateUnavailableRecovered ==
    (pc = "done" /\ presentation_data # <<>> /\ response.detail # "Exception"
        /\ ~SaveRaised /\ template_file.status \in {"missing", "unreadable"})
    => /\ Finished
       /\ \A f \in disk : f.complete =>
             f.prs.slide_width = SLIDE_W /\ f.prs.slides[1].background = COLOR_BG

(***************************************************************************)
(* C9 - an exception raised in create_presentation, while the slides are   *)
(* built or while the document is saved, ends the request with status 500  *)
(* carrying the error, with no file left on disk, no token stored and no   *)
(* further step, however many slides were built; a template with fewer     *)
(* than two slides always ends so.  Stated as claimed; a save that fails   *)
(* part-way leaves a truncated file behind.                                *)
(***************************************************************************)
C9_NoPartialDocument ==
    /\ (BuildRaised \/ SaveRaised) => /\ response.status = 500
                                      /\ pc = "done"
                                      /\ disk = {}
                                      /\ _ppt_store = {}
                                      /\ ~ENABLED Next
    /\ (template_file.status = "ok" /\ Len(template_file.slides) < 2
            /\ pc \notin {"idle", "await_llm", "create"} /\ presentation_data # <<>>)
        => response = Http500("IndexError")

(***************************************************************************)
(* C10 - the descriptors handed to create_presentation number between 2    *)
(* and 15.  Stated as claimed; no path checks the length of the list.      *)
(***************************************************************************)
C10_DescriptorCountBound ==
    pc \notin {"idle", "await_llm", "done"} =>
        (Len(presentation_data) >= 2 /\ Len(presentation_data) <= 15)

(***************************************************************************)
(* C11 - every /download step answers by the store alone: a token the      *)
(* store holds is answered 200 with the entry's bytes and file name, was   *)
(* never answered 200 before, and its entry is removed; any other token    *)
(* (already downloaded or never issued) is answered 404 and the store is   *)
(* left as it was.  So at most one download of a token ever succeeds.      *)
(***************************************************************************)
C11_OneTimeDownload ==
    [][downloads' # downloads =>
        LET r == downloads'[Len(downloads')]
            held == {e \in _ppt_store : e.token = r.token}
            served == {k \in 1..Len(downloads) :
                          downloads[k].token = r.token /\ downloads[k].status = 200}
        IN  /\ downloads' = Append(downloads, r)
            /\ IF held # {}
               THEN /\ r.status = 200
                    /\ served = {}
                    /\ \A e \in held : r.body = e.buf.bytes /\ r.filename = e.filename
                    /\ _ppt_store' = _ppt_store \ held
                    /\ \A e \in _ppt_store' : e.token # r.token
               ELSE /\ r.status = 404
                    /\ _ppt_store' = _ppt_store]_vars

C11_Witness ==
    /\ pc = "done" /\ response.status = 500
    /\ Len(downloads) = 3
    /\ downloads[1].token \in StoreTokens /\ downloads[1].status = 200
    /\ downloads[2].token = downloads[1].token /\ downloads[2].status = 404
    /\ downloads[3].token \notin StoreTokens /\ downloads[3].status = 404
    /\ \E e \in _ppt_store : e.token # downloads[1].token

(***************************************************************************)
(* C12 - a request whose descriptor list is not empty, and whose build and  *)
(* save raise nothing, ends with status 200 and a token, nothing written to *)
(* disk, the store holding an entry under that token, and a download of    *)
(* that token succeeding.  Stated as claimed; create_presentation saves to *)
(* disk and returns a path, which generate_ppt cannot unpack.              *)
(***************************************************************************)
C12_GenerateThenDownload ==
    (pc = "done" /\ presentation_data # <<>> /\ ~BuildRaised /\ ~SaveRaised) =>
        /\ response.status = 200
        /\ disk = {}
        /\ \E e \in _ppt_store : e.token = response.detail
        /\ download_ppt(_ppt_store, response.detail).response.status = 200

====
